---- MODULE Spec2Model ----
(***************************************************************************)
(* Model of the Taboo game client, src/static/script.js (class TabooGame). *)
(*                                                                         *)
(* The page is single threaded: every event handler, timer callback and    *)
(* continuation of an awaited fetch runs to its next suspension point      *)
(* without interleaving, so each of them is one action.  A fetch() that    *)
(* has been issued and not yet answered is an element of gameReqs or       *)
(* hintReqs; its completion (success, non-2xx, or a thrown error) is an    *)
(* action that runs the rest of the async function.  A setInterval that    *)
(* has been registered and not cleared is an element of DOMAIN timers,     *)
(* mapped to the value of its closure variable `timer`.                    *)
(*                                                                         *)
(* User events reach a handler only through a control of the screen that   *)
(* is shown (display: none hides the others) and, for the guess input,     *)
(* only while it is not disabled.  Responses and interval callbacks come   *)
(* at any time and in any order; the callbacks of two live intervals are   *)
(* not ordered with respect to each other.                                 *)
(*                                                                         *)
(* Strings are sequences of one-character strings.  The transient error    *)
(* notice (showError) and the loader bars are presentation only and are    *)
(* not part of the state.                                                  *)
(***************************************************************************)
EXTENDS Integers, Sequences, FiniteSets, TLC

\* ---------------------------------------------------------------- constants
\* SIMILARITY_THRESHOLD = 0.8, kept as the exact fraction 4/5
SIMILARITY_THRESHOLD_NUM == 4
SIMILARITY_THRESHOLD_DEN == 5
MAX_ATTEMPTS == 5
\* this.startTimer(20)
TIMER_DURATION == 20

\* ------------------------------------------------------------------- bounds
\* number of startGame calls that pass validation in one behaviour
MaxStarts == 2

\* longest guess of the guess-evaluation specification
MaxGuessLen == 5

\* longest argument of the similarity specification
MaxStrLen == 3

\* makeGuess calls counted by currentAttempt in the fair session (a round with
\* no word never ends by itself, its counter would grow without limit)
MaxGuessCalls == 6

\* ------------------------------------------------------------ input domains
NULL == 0
NoProps == [word |-> <<"?">>, banned |-> 0, defined |-> FALSE]

apple == <<"a", "p", "p", "l", "e">>
Rounds == {[word |-> apple, banned |-> 1, defined |-> TRUE]}
\* two different answers of POST /game
TwoRounds == Rounds \cup {[word |-> <<"f", "i", "g">>, banned |-> 2, defined |-> TRUE]}
RoundWords == {r.word : r \in TwoRounds}
Hints == {"h1"}
\* "Apple" (distance 0), "apples" (1 edit over 6), "apply" (1 edit over 5,
\* similarity exactly 0.8), and a blank
Guesses == { <<"A", "p", "p", "l", "e">>,
             <<"a", "p", "p", "l", "e", "s">>,
             <<"a", "p", "p", "l", "y">>,
             <<" ">> }
\* inputs of the guess-evaluation specification: a 5-letter and a 6-letter
\* word, and every guess up to MaxGuessLen over three characters
GuessRounds == {[word |-> <<"a", "b", "a", "a", "b">>, banned |-> 1, defined |-> TRUE],
                [word |-> <<"A", "b", "b", "a", "b", "a">>, banned |-> 2, defined |-> TRUE]}
GuessAlphabet == {"a", "b", "A"}
GuessStrings == UNION {[1..n -> GuessAlphabet] : n \in 1..MaxGuessLen}
\* the worked examples: "dog" / "dob", "elephant" / "elefant", "" / "cat"
dog == <<"d", "o", "g">>
dob == <<"d", "o", "b">>
cat == <<"c", "a", "t">>
elephant == <<"e", "l", "e", "p", "h", "a", "n", "t">>
elefant == <<"e", "l", "e", "f", "a", "n", "t">>
ScenarioRounds == {[word |-> dog, banned |-> 1, defined |-> TRUE],
                   [word |-> elephant, banned |-> 2, defined |-> TRUE]}
ScenarioGuesses == {dob, elefant}
\* arguments of checkSimilarity: every pair of strings up to MaxStrLen over
\* three characters, the empty string included, and the worked examples
SimStrings == UNION {[1..n -> GuessAlphabet] : n \in 0..MaxStrLen}
SimPairs == (SimStrings \X SimStrings)
               \cup {<<dog, dob>>, <<dob, dog>>, <<elephant, elefant>>,
                      <<elefant, elephant>>, <<<<>>, cat>>, <<cat, <<>>>>}
\* one guess that wins against "apple" and one that misses both words
TwoGuesses == { <<"A", "p", "p", "l", "e">>, <<"a", "p", "p", "l", "y">> }
\* answers of POST /game for the fair session: the Round, and a 200 answer
\* with no word in it (checkSimilarity then throws on str2.toLowerCase())
WordlessRound == [word |-> <<"?">>, banned |-> 3, defined |-> FALSE]
FairRounds == Rounds \cup {WordlessRound}
Difficulties == {"", "easy"}
Topics == { <<>>, <<" ">>, <<"z">> }
Outcomes == {"ok", "notok", "throw"}

VARIABLES
    currentScreen,    \* which .screen is not hidden: "setup", "play", "result"
    currentAttempt,   \* this.currentAttempt
    previousGuesses,  \* this.previousGuesses
    gameProps,        \* this.gameProps (NoProps while undefined)
    timerInterval,    \* this.timerInterval (NULL or an interval id)
    timers,           \* live intervals: id -> closure variable `timer`
    nextTimerId,      \* next id setInterval returns
    timerDisplay,     \* #timer-display textContent
    currentHint,      \* #current-hint textContent
    guessDisabled,    \* #guess-input disabled
    resultMessage,    \* #result-message: "none", "win", "lose"
    gameReqs,         \* number of POST /game requests in flight
    hintReqs,         \* POST /hints requests in flight: how many per awaiting caller
    nStarts,          \* number of startGame calls that issued a request
    expired,          \* history: ids of the intervals that ran their expiry branch
    lastOp            \* history: the handler that ran last

vars == <<currentScreen, currentAttempt, previousGuesses, gameProps,
          timerInterval, timers, nextTimerId, timerDisplay, currentHint,
          guessDisabled, resultMessage, gameReqs, hintReqs, nStarts,
          expired, lastOp>>

\* ------------------------------------------------------------ pure helpers
Max(x, y) == IF x >= y THEN x ELSE y
Min(x, y) == IF x <= y THEN x ELSE y
Min3(x, y, z) == Min(x, Min(y, z))

UpperChars == <<"A","B","C","D","E","F","G","H","I","J","K","L","M",
                "N","O","P","Q","R","S","T","U","V","W","X","Y","Z">>
LowerChars == <<"a","b","c","d","e","f","g","h","i","j","k","l","m",
                "n","o","p","q","r","s","t","u","v","w","x","y","z">>

\* String.prototype.toLowerCase, character by character
toLowerCase(s) ==
    [k \in 1..Len(s) |->
        IF \E u \in 1..26 : UpperChars[u] = s[k]
        THEN LowerChars[CHOOSE u \in 1..26 : UpperChars[u] = s[k]]
        ELSE s[k]]

\* String.prototype.trim
RECURSIVE trimStart(_)
trimStart(s) == IF s # <<>> /\ Head(s) = " " THEN trimStart(Tail(s)) ELSE s
RECURSIVE trimEnd(_)
trimEnd(s) == IF s # <<>> /\ s[Len(s)] = " "
              THEN trimEnd(SubSeq(s, 1, Len(s) - 1)) ELSE s
\* (variant: the text is tested as typed, without trimming)
trimNothing(s) == s
trim(s) == trimEnd(trimStart(s))

\* levenshteinDistance: one row of the matrix from the row above it.
\* row[j+1] is matrix[i][j]; prev[j+1] is matrix[i-1][j].
\* (variant: the deletion term, matrix[i-1][j] + 1, is left out)
RECURSIVE matrixRowNoDeletion(_, _, _, _, _)
matrixRowNoDeletion(a, b, i, prev, row) ==
    LET j == Len(row) IN
    IF j > Len(a) THEN row
    ELSE matrixRowNoDeletion(a, b, i, prev,
            Append(row,
                IF b[i] = a[j]
                THEN prev[j]
                ELSE Min(prev[j] + 1, row[j] + 1)))

RECURSIVE matrixRow(_, _, _, _, _)
matrixRow(a, b, i, prev, row) ==
    LET j == Len(row) IN
    IF j > Len(a) THEN row
    ELSE matrixRow(a, b, i, prev,
            Append(row,
                IF b[i] = a[j]
                THEN prev[j]
                ELSE Min3(prev[j] + 1, row[j] + 1, prev[j + 1] + 1)))

RECURSIVE matrixFill(_, _, _, _)
matrixFill(a, b, i, prev) ==
    IF i > Len(b) THEN prev
    ELSE matrixFill(a, b, i + 1, matrixRow(a, b, i, prev, <<i>>))

\* (variant: characters compared position by position, plus the difference
\* of the lengths)
positionalDistance(a, b) ==
    Cardinality({k \in 1..Min(Len(a), Len(b)) : a[k] # b[k]})
        + Max(Len(a), Len(b)) - Min(Len(a), Len(b))

levenshteinDistance(a, b) ==
    IF Len(a) = 0 THEN Len(b)
    ELSE IF Len(b) = 0 THEN Len(a)
    ELSE matrixFill(a, b, 1, [j \in 1..(Len(a) + 1) |-> j - 1])[Len(a) + 1]

\* checkSimilarity returns 1 - edits / maxLength.  The quotient is kept as
\* the pair (edits, maxLength); maxLength = 0 is the 0/0 = NaN case.
checkSimilarity(str1, str2) ==
    LET str1Lower == toLowerCase(str1)
        str2Lower == toLowerCase(str2)
    IN [edits |-> levenshteinDistance(str1Lower, str2Lower),
        maxLength |-> Max(Len(str1Lower), Len(str2Lower))]

\* (variant: the threshold itself accepted, >= instead of >)
aboveOrAtThreshold(sim) ==
    /\ sim.maxLength > 0
    /\ (sim.maxLength - sim.edits) * SIMILARITY_THRESHOLD_DEN
          >= SIMILARITY_THRESHOLD_NUM * sim.maxLength

\* similarity > SIMILARITY_THRESHOLD for similarity = 1 - edits/maxLength.
\* NaN compares false.  For maxLength > 0 the IEEE comparison
\* 1 - d/m > 0.8 agrees with the exact one, (m - d) * 5 > 4 * m.
aboveThreshold(sim) ==
    /\ sim.maxLength > 0
    /\ (sim.maxLength - sim.edits) * SIMILARITY_THRESHOLD_DEN
          > SIMILARITY_THRESHOLD_NUM * sim.maxLength

\* (variant: with no handle set, the oldest registered interval is cleared)
clearTimerOldest(handle, live) ==
    LET h == IF handle # NULL \/ DOMAIN live = {} THEN handle
             ELSE CHOOSE i \in DOMAIN live : \A j \in DOMAIN live : i <= j
    IN [i \in (DOMAIN live) \ {h} |-> live[i]]

\* clearTimer: the interval the handle names is cleared, the handle nulled
clearTimerTimers(handle, live) ==
    IF handle # NULL
    THEN [i \in (DOMAIN live) \ {handle} |-> live[i]]
    ELSE live

\* checkSimilarity on the enumerated inputs, evaluated once
similarityTable ==
    [g \in Guesses |-> [w \in RoundWords |-> checkSimilarity(g, w)]]
similarity(guess, word) ==
    IF guess \in Guesses /\ word \in RoundWords
    THEN similarityTable[guess][word]
    ELSE checkSimilarity(guess, word)

NoTimers == [i \in {} |-> 0]

NoHintReqs == [start |-> 0, guess |-> 0]
NoBody == [sent |-> FALSE, props |-> NoProps, previous_guesses |-> <<>>]

\* history record: the handler that ran, the screen it found, the guess it
\* was given, the caller a hint response resumed, and the body of the /hints
\* request it sent
Op(op, guess, cont, body) ==
    [op |-> op, screen |-> currentScreen, guess |-> guess, cont |-> cont,
     body |-> body]
HintBody(props, guesses) ==
    [sent |-> TRUE, props |-> props, previous_guesses |-> guesses]

\* ------------------------------------------------------------------ Init
Init ==
    /\ currentScreen = "setup"
    /\ currentAttempt = 0
    /\ previousGuesses = <<>>
    /\ gameProps = NoProps
    /\ timerInterval = NULL
    /\ timers = NoTimers
    /\ nextTimerId = 1
    /\ timerDisplay = TIMER_DURATION
    /\ currentHint = ""
    /\ guessDisabled = FALSE
    /\ resultMessage = "none"
    /\ gameReqs = 0
    /\ hintReqs = NoHintReqs
    /\ nStarts = 0
    /\ expired = {}
    /\ lastOp = [op |-> "init", screen |-> "setup", guess |-> <<>>,
                 cont |-> "", body |-> NoBody]

\* ------------------------------------------------------------ operations

\* (variant: expiry ends the round only once the attempts are used up)
tickWhenExhausted(id, handle, live) ==
    LET timer == live[id] IN
    /\ timerDisplay' = timer
    /\ IF timer < 0
       THEN /\ timers' = clearTimerTimers(handle, live)
            /\ timerInterval' = NULL
            /\ resultMessage' =
                  IF currentAttempt >= MAX_ATTEMPTS THEN "lose" ELSE resultMessage
            /\ currentScreen' =
                  IF currentAttempt >= MAX_ATTEMPTS THEN "result" ELSE currentScreen
            /\ expired' = expired \cup {id}
       ELSE /\ timers' = [live EXCEPT ![id] = timer - 1]
            /\ timerInterval' = handle
            /\ UNCHANGED <<resultMessage, currentScreen, expired>>

\* (variant: the closure variable is decremented before it is written)
tickDecrementsFirst(id, handle, live) ==
    LET timer == live[id] - 1 IN
    /\ timerDisplay' = timer
    /\ IF timer < 0
       THEN /\ timers' = clearTimerTimers(handle, live)
            /\ timerInterval' = NULL
            /\ resultMessage' = "lose"
            /\ currentScreen' = "result"
            /\ expired' = expired \cup {id}
       ELSE /\ timers' = [live EXCEPT ![id] = timer]
            /\ timerInterval' = handle
            /\ UNCHANGED <<resultMessage, currentScreen, expired>>

\* The body of `tick` for interval id, run with handle as this.timerInterval
\* and live as the registered intervals: writes the display, then either
\* runs the expiry branch (clearTimer, showResult(false)) or decrements.
tick(id, handle, live) ==
    LET timer == live[id] IN
    /\ timerDisplay' = timer
    /\ IF timer < 0
       THEN /\ timers' = clearTimerTimers(handle, live)
            /\ timerInterval' = NULL
            /\ resultMessage' = "lose"
            /\ currentScreen' = "result"
            /\ expired' = expired \cup {id}
       ELSE /\ timers' = [live EXCEPT ![id] = timer - 1]
            /\ timerInterval' = handle
            /\ UNCHANGED <<resultMessage, currentScreen, expired>>

\* startTimer(duration): a new interval is registered and stored in
\* this.timerInterval without looking at the old handle, then tick() runs once.
startTimer(duration) ==
    LET id == nextTimerId IN
    /\ nextTimerId' = id + 1
    /\ tick(id, id, [i \in (DOMAIN timers) \cup {id} |->
                        IF i = id THEN duration ELSE timers[i]])

\* (variant: only the topic is validated, the difficulty is not looked at)
StartGameAnyDifficulty(difficulty, topic) ==
    /\ currentScreen = "setup"
    /\ IF topic = <<>> \/ trim(topic) = <<>>
       THEN /\ lastOp' = Op("startGameRejected", <<>>, "", NoBody)
            /\ UNCHANGED <<gameReqs, nStarts>>
       ELSE /\ nStarts < MaxStarts
            /\ gameReqs' = gameReqs + 1
            /\ nStarts' = nStarts + 1
            /\ lastOp' = Op("startGame", <<>>, "", NoBody)
    /\ UNCHANGED <<currentScreen, currentAttempt, previousGuesses, gameProps,
                   timerInterval, timers, nextTimerId, timerDisplay,
                   currentHint, guessDisabled, resultMessage, hintReqs,
                   expired>>

\* click on #start-game (the button is on the setup screen and is never
\* disabled by this script)
StartGame(difficulty, topic) ==
    /\ currentScreen = "setup"
    /\ IF difficulty = "" \/ topic = <<>> \/ trim(topic) = <<>>
       THEN /\ lastOp' = Op("startGameRejected", <<>>, "", NoBody)
            /\ UNCHANGED <<gameReqs, nStarts>>
       ELSE /\ nStarts < MaxStarts
            /\ gameReqs' = gameReqs + 1
            /\ nStarts' = nStarts + 1
            /\ lastOp' = Op("startGame", <<>>, "", NoBody)
    /\ UNCHANGED <<currentScreen, currentAttempt, previousGuesses, gameProps,
                   timerInterval, timers, nextTimerId, timerDisplay,
                   currentHint, guessDisabled, resultMessage, hintReqs,
                   expired>>

\* (variant: the response body is stored and the game screen shown before
\* response.ok is looked at)
GameResponseCommitsEarly(outcome, data) ==
    /\ gameReqs > 0
    /\ gameReqs' = gameReqs - 1
    /\ IF outcome = "ok"
       THEN /\ gameProps' = data
            /\ currentScreen' = "play"
            /\ currentHint' = ""
            /\ hintReqs' = [hintReqs EXCEPT !.start = @ + 1]
            /\ lastOp' = Op("gameOk", <<>>, "", HintBody(data, previousGuesses))
       ELSE /\ gameProps' = IF outcome = "notok" THEN data ELSE gameProps
            /\ currentScreen' = IF outcome = "notok" THEN "play" ELSE currentScreen
            /\ UNCHANGED <<currentHint, hintReqs>>
            /\ lastOp' = Op("gameFail", <<>>, "", NoBody)
    /\ UNCHANGED <<currentAttempt, previousGuesses, timerInterval, timers,
                   nextTimerId, timerDisplay, guessDisabled, resultMessage,
                   nStarts, expired>>

\* the fetch('/game') of one startGame call completes
GameResponse(outcome, data) ==
    /\ gameReqs > 0
    /\ gameReqs' = gameReqs - 1
    /\ IF outcome = "ok"
       THEN /\ gameProps' = data
            /\ currentScreen' = "play"
            \* getNewHint() up to its fetch
            /\ currentHint' = ""
            /\ hintReqs' = [hintReqs EXCEPT !.start = @ + 1]
            /\ lastOp' = Op("gameOk", <<>>, "", HintBody(data, previousGuesses))
       ELSE /\ UNCHANGED <<gameProps, currentScreen, currentHint, hintReqs>>
            /\ lastOp' = Op("gameFail", <<>>, "", NoBody)
    /\ UNCHANGED <<currentAttempt, previousGuesses, timerInterval, timers,
                   nextTimerId, timerDisplay, guessDisabled, resultMessage,
                   nStarts, expired>>

\* (variant: a failed hint request is sent again)
HintResponseRetries(cont, outcome, hint) ==
    /\ hintReqs[cont] > 0
    /\ IF outcome # "ok"
       THEN /\ lastOp' = Op("hintFail", <<>>, cont, NoBody)
            /\ UNCHANGED <<hintReqs, currentHint, guessDisabled, timerInterval,
                           timers, nextTimerId, timerDisplay, resultMessage,
                           currentScreen, expired>>
       ELSE /\ hintReqs' = [hintReqs EXCEPT ![cont] = @ - 1]
            /\ currentHint' = hint
            /\ lastOp' = Op("hintOk", <<>>, cont, NoBody)
            /\ IF cont = "start"
               THEN /\ startTimer(TIMER_DURATION)
                    /\ UNCHANGED guessDisabled
               ELSE /\ guessDisabled' = FALSE
                    /\ UNCHANGED <<timerInterval, timers, nextTimerId,
                                   timerDisplay, resultMessage, currentScreen,
                                   expired>>
    /\ UNCHANGED <<currentAttempt, previousGuesses, gameProps, gameReqs,
                   nStarts>>

\* (variant: the input is re-enabled after the await only, not in a finally
\* block, so only a hint that arrived re-enables it)
HintResponseNoFinally(cont, outcome, hint) ==
    /\ hintReqs[cont] > 0
    /\ hintReqs' = [hintReqs EXCEPT ![cont] = @ - 1]
    /\ currentHint' = IF outcome = "ok" THEN hint ELSE currentHint
    /\ lastOp' = Op(IF outcome = "ok" THEN "hintOk" ELSE "hintFail",
                    <<>>, cont, NoBody)
    /\ IF cont = "start"
       THEN /\ startTimer(TIMER_DURATION)
            /\ UNCHANGED guessDisabled
       ELSE /\ guessDisabled' = IF outcome = "ok" THEN FALSE ELSE guessDisabled
            /\ UNCHANGED <<timerInterval, timers, nextTimerId, timerDisplay,
                           resultMessage, currentScreen, expired>>
    /\ UNCHANGED <<currentAttempt, previousGuesses, gameProps, gameReqs,
                   nStarts>>

\* a fetch('/hints') issued by caller cont completes; getNewHint returns and the
\* caller awaiting it continues: startGame starts the timer, makeGuess
\* re-enables the input.
HintResponse(cont, outcome, hint) ==
    /\ hintReqs[cont] > 0
    /\ hintReqs' = [hintReqs EXCEPT ![cont] = @ - 1]
    /\ currentHint' = IF outcome = "ok" THEN hint ELSE currentHint
    /\ lastOp' = Op(IF outcome = "ok" THEN "hintOk" ELSE "hintFail",
                    <<>>, cont, NoBody)
    /\ IF cont = "start"
       THEN /\ startTimer(TIMER_DURATION)
            /\ UNCHANGED guessDisabled
       ELSE /\ guessDisabled' = FALSE
            /\ UNCHANGED <<timerInterval, timers, nextTimerId, timerDisplay,
                           resultMessage, currentScreen, expired>>
    /\ UNCHANGED <<currentAttempt, previousGuesses, gameProps, gameReqs,
                   nStarts>>

\* (variant: the attempt limit is tested before the similarity)
MakeGuessLimitFirst(guess) ==
    /\ currentScreen = "play"
    /\ ~guessDisabled
    /\ IF trim(guess) = <<>>
       THEN /\ lastOp' = Op("guessBlank", guess, "", NoBody)
            /\ UNCHANGED <<currentAttempt, previousGuesses, currentScreen,
                           resultMessage, timerInterval, timers, currentHint,
                           hintReqs, guessDisabled>>
       ELSE
         /\ currentAttempt' = currentAttempt + 1
         /\ IF ~gameProps.defined
            THEN /\ guessDisabled' = FALSE
                 /\ UNCHANGED <<previousGuesses, currentScreen, resultMessage,
                                timerInterval, timers, currentHint, hintReqs>>
            ELSE IF /\ currentAttempt' < MAX_ATTEMPTS
                    /\ aboveThreshold(similarity(guess, gameProps.word))
            THEN /\ resultMessage' = "win"
                 /\ currentScreen' = "result"
                 /\ timers' = clearTimerTimers(timerInterval, timers)
                 /\ timerInterval' = NULL
                 /\ guessDisabled' = FALSE
                 /\ UNCHANGED <<previousGuesses, currentHint, hintReqs>>
            ELSE /\ previousGuesses' = Append(previousGuesses,
                        [predict |-> guess, sentence |-> currentHint])
                 /\ IF currentAttempt' >= MAX_ATTEMPTS
                    THEN /\ resultMessage' = "lose"
                         /\ currentScreen' = "result"
                         /\ guessDisabled' = FALSE
                         /\ UNCHANGED <<currentHint, hintReqs>>
                    ELSE /\ currentHint' = ""
                         /\ hintReqs' = [hintReqs EXCEPT !.guess = @ + 1]
                         /\ guessDisabled' = TRUE
                         /\ UNCHANGED <<resultMessage, currentScreen>>
                 /\ UNCHANGED <<timerInterval, timers>>
         /\ lastOp' = Op("guess", guess, "",
                IF hintReqs' # hintReqs
                THEN HintBody(gameProps, previousGuesses')
                ELSE NoBody)
    /\ UNCHANGED <<gameProps, nextTimerId, timerDisplay, gameReqs, nStarts,
                   expired>>

\* Enter in #guess-input (visible on the play screen, no event while disabled)
MakeGuess(guess) ==
    /\ currentScreen = "play"
    /\ ~guessDisabled
    /\ IF trim(guess) = <<>>
       THEN /\ lastOp' = Op("guessBlank", guess, "", NoBody)
            /\ UNCHANGED <<currentAttempt, previousGuesses, currentScreen,
                           resultMessage, timerInterval, timers, currentHint,
                           hintReqs, guessDisabled>>
       ELSE
         /\ currentAttempt' = currentAttempt + 1
         /\ IF ~gameProps.defined
            THEN \* this.gameProps.word throws; catch, finally
                 /\ guessDisabled' = FALSE
                 /\ UNCHANGED <<previousGuesses, currentScreen, resultMessage,
                                timerInterval, timers, currentHint, hintReqs>>
            ELSE IF aboveThreshold(similarity(guess, gameProps.word))
            THEN \* showResult(true)
                 /\ resultMessage' = "win"
                 /\ currentScreen' = "result"
                 /\ timers' = clearTimerTimers(timerInterval, timers)
                 /\ timerInterval' = NULL
                 /\ guessDisabled' = FALSE
                 /\ UNCHANGED <<previousGuesses, currentHint, hintReqs>>
            ELSE /\ previousGuesses' = Append(previousGuesses,
                        [predict |-> guess, sentence |-> currentHint])
                 /\ IF currentAttempt' >= MAX_ATTEMPTS
                    THEN \* showResult(false)
                         /\ resultMessage' = "lose"
                         /\ currentScreen' = "result"
                         /\ guessDisabled' = FALSE
                         /\ UNCHANGED <<currentHint, hintReqs>>
                    ELSE \* getNewHint() up to its fetch
                         /\ currentHint' = ""
                         /\ hintReqs' = [hintReqs EXCEPT !.guess = @ + 1]
                         /\ guessDisabled' = TRUE
                         /\ UNCHANGED <<resultMessage, currentScreen>>
                 /\ UNCHANGED <<timerInterval, timers>>
         /\ lastOp' = Op("guess", guess, "",
                IF hintReqs' # hintReqs
                THEN HintBody(gameProps, previousGuesses')
                ELSE NoBody)
    /\ UNCHANGED <<gameProps, nextTimerId, timerDisplay, gameReqs, nStarts,
                   expired>>

\* the callback of live interval id fires
Tick(id) ==
    /\ id \in DOMAIN timers
    /\ tick(id, timerInterval, timers)
    /\ lastOp' = Op(IF timers[id] < 0 THEN "expire" ELSE "tick", <<>>, "", NoBody)
    /\ UNCHANGED <<currentAttempt, previousGuesses, gameProps, nextTimerId,
                   currentHint, guessDisabled, gameReqs, hintReqs, nStarts>>

\* click on #replay (on the result screen)
ResetGame ==
    /\ currentScreen = "result"
    /\ currentAttempt' = 0
    /\ previousGuesses' = <<>>
    /\ currentScreen' = "setup"
    /\ timers' = clearTimerTimers(timerInterval, timers)
    /\ timerInterval' = NULL
    /\ timerDisplay' = 20
    /\ lastOp' = Op("reset", <<>>, "", NoBody)
    /\ UNCHANGED <<gameProps, nextTimerId, currentHint, guessDisabled,
                   resultMessage, gameReqs, hintReqs, nStarts, expired>>

Next ==
    \/ \E d \in Difficulties, t \in Topics : StartGame(d, t)
    \/ \E o \in Outcomes, data \in Rounds : GameResponse(o, data)
    \/ \E c \in {"start", "guess"}, o \in Outcomes, h \in Hints : HintResponse(c, o, h)
    \/ \E g \in Guesses : MakeGuess(g)
    \/ \E id \in DOMAIN timers : Tick(id)
    \/ ResetGame

Spec == Init /\ [][Next]_vars

\* Guess evaluation alone: the session as a successful start-round response
\* leaves it (game screen shown, first hint request in flight), for each word
\* of GuessRounds with one guess out of GuessStrings entered, and for each
\* word of ScenarioRounds with one guess out of ScenarioGuesses.
InitGuess ==
    /\ currentScreen = "play"
    /\ currentAttempt = 0
    /\ previousGuesses = <<>>
    /\ gameProps \in GuessRounds \cup ScenarioRounds
    /\ timerInterval = NULL
    /\ timers = NoTimers
    /\ nextTimerId = 1
    /\ timerDisplay = TIMER_DURATION
    /\ currentHint = ""
    /\ guessDisabled = FALSE
    /\ resultMessage = "none"
    /\ gameReqs = 0
    /\ hintReqs = [start |-> 1, guess |-> 0]
    /\ nStarts = 1
    /\ expired = {}
    /\ lastOp = [op |-> "gameOk", screen |-> "setup", guess |-> <<>>,
                 cont |-> "", body |-> HintBody(gameProps, <<>>)]

NextGuess ==
    \E g \in (IF gameProps \in ScenarioRounds THEN ScenarioGuesses
                                              ELSE GuessStrings) : MakeGuess(g)

SpecGuess == InitGuess /\ [][NextGuess]_vars

\* The session with start-round responses drawn from two different Rounds,
\* up to the first interval callback (no callback of a live interval fires).
NextRounds ==
    \/ \E d \in Difficulties, t \in Topics : StartGame(d, t)
    \/ \E o \in Outcomes, data \in TwoRounds : GameResponse(o, data)
    \/ \E c \in {"start", "guess"}, o \in Outcomes, h \in Hints : HintResponse(c, o, h)
    \/ \E g \in TwoGuesses : MakeGuess(g)
    \/ ResetGame

SpecRounds == Init /\ [][NextRounds]_vars

\* The session in which every /hints request that was issued completes: the
\* browser settles each pending fetch, so the response step of a caller that
\* awaits one stays enabled until it is taken.  Start-round answers are drawn
\* from FairRounds, guesses from TwoGuesses; the session runs up to the first
\* interval callback (no callback of a live interval fires).
NextFair ==
    \/ \E d \in Difficulties, t \in Topics : StartGame(d, t)
    \/ \E o \in Outcomes, data \in FairRounds : GameResponse(o, data)
    \/ \E c \in {"start", "guess"}, o \in Outcomes, h \in Hints : HintResponse(c, o, h)
    \/ \E g \in TwoGuesses : currentAttempt < MaxGuessCalls /\ MakeGuess(g)
    \/ ResetGame

HintsComplete ==
    \A c \in {"start", "guess"} :
        WF_vars(\E o \in Outcomes, h \in Hints : HintResponse(c, o, h))

SpecFair == Init /\ [][NextFair]_vars /\ HintsComplete

\* checkSimilarity alone: the constructed session with a pair of arguments
\* chosen (lastOp records the pending call), and the call itself, which
\* records its arguments and the value it returns.
InitSimilarity ==
    /\ currentScreen = "setup"
    /\ currentAttempt = 0
    /\ previousGuesses = <<>>
    /\ gameProps = NoProps
    /\ timerInterval = NULL
    /\ timers = NoTimers
    /\ nextTimerId = 1
    /\ timerDisplay = TIMER_DURATION
    /\ currentHint = ""
    /\ guessDisabled = FALSE
    /\ resultMessage = "none"
    /\ gameReqs = 0
    /\ hintReqs = NoHintReqs
    /\ nStarts = 0
    /\ expired = {}
    /\ \E p \in SimPairs :
          lastOp = [op |-> "call", str1 |-> p[1], str2 |-> p[2]]

CheckSimilarity ==
    /\ lastOp.op = "call"
    /\ lastOp' = [op |-> "checkSimilarity",
                  str1 |-> lastOp.str1, str2 |-> lastOp.str2,
                  result |-> checkSimilarity(lastOp.str1, lastOp.str2)]
    /\ UNCHANGED <<currentScreen, currentAttempt, previousGuesses, gameProps,
                   timerInterval, timers, nextTimerId, timerDisplay,
                   currentHint, guessDisabled, resultMessage, gameReqs,
                   hintReqs, nStarts, expired>>

NextSimilarity == CheckSimilarity

SpecSimilarity == InitSimilarity /\ [][NextSimilarity]_vars

TypeOK ==
    /\ currentScreen \in {"setup", "play", "result"}
    /\ currentAttempt \in Nat
    /\ timerInterval \in {NULL} \cup DOMAIN timers
    /\ resultMessage \in {"none", "win", "lose"}
    /\ guessDisabled \in BOOLEAN

\* ------------------------------------------------------------- reference
\* Unit-cost edit distance by its defining recursion on prefixes
RECURSIVE RefEditDistance(_, _)
RefEditDistance(a, b) ==
    IF a = <<>> THEN Len(b)
    ELSE IF b = <<>> THEN Len(a)
    ELSE Min3(RefEditDistance(Tail(a), Tail(b))
                 + (IF Head(a) = Head(b) THEN 0 ELSE 1),
              RefEditDistance(Tail(a), b) + 1,
              RefEditDistance(a, Tail(b)) + 1)

RefDistanceTable ==
    [g \in Guesses |-> [w \in RoundWords |->
        RefEditDistance(toLowerCase(g), toLowerCase(w))]]
\* d and m of the guess against the word
EditsOf(g, w) ==
    IF g \in Guesses /\ w \in RoundWords
    THEN RefDistanceTable[g][w]
    ELSE RefEditDistance(toLowerCase(g), toLowerCase(w))
MaxLenOf(g, w) == Max(Len(g), Len(w))
\* similarity strictly above 4/5, i.e. 5 * d < m
RefWins(g, w) == 5 * EditsOf(g, w) < MaxLenOf(g, w)

\* text that is empty or consists of spaces only
IsBlank(s) == \A i \in 1..Len(s) : s[i] = " "

\* two values of checkSimilarity are the same number (NaN equals nothing)
SameNumber(x, y) ==
    /\ x.maxLength > 0
    /\ y.maxLength > 0
    /\ x.edits * y.maxLength = y.edits * x.maxLength

\* number of POST /hints requests in flight
InFlight == hintReqs.start + hintReqs.guess

ShowsWin == currentScreen = "result" /\ resultMessage = "win"
ShowsLoss == currentScreen = "result" /\ resultMessage = "lose"

\* ------------------------------------------------------------------ claims

\* C1: a round ends in a win iff a submitted guess has similarity above 0.8,
\* and in a loss iff the attempts run out without one or the timer expires;
\* once the result screen shows a win, no later event turns it into a loss.
C1_RoundOutcome ==
    [][ /\ (lastOp'.op = "guess" /\ gameProps.defined
              /\ RefWins(lastOp'.guess, gameProps.word))
           => (ShowsWin)'
        /\ ((ShowsWin)' /\ ~ShowsWin)
           => (lastOp'.op = "guess" /\ RefWins(lastOp'.guess, gameProps.word))
        /\ ((ShowsLoss)' /\ ~ShowsLoss)
           => \/ lastOp'.op = "expire"
              \/ /\ lastOp'.op = "guess"
                 /\ ~RefWins(lastOp'.guess, gameProps.word)
                 /\ currentAttempt' >= MAX_ATTEMPTS
        /\ ShowsWin => ~(ShowsLoss)'
      ]_vars

\* C2: a guess wins exactly when its similarity is strictly above 0.8: with d
\* the edit distance and m the longer length, 5*d < m wins, and 5*d >= m
\* (5*d = m is similarity exactly 0.8) is a miss that is recorded.
C2_StrictThreshold ==
    (lastOp.op = "guess" /\ gameProps.defined) =>
        IF RefWins(lastOp.guess, gameProps.word)
        THEN ShowsWin
        ELSE /\ ~ShowsWin
             /\ previousGuesses # <<>>
             /\ previousGuesses[Len(previousGuesses)].predict = lastOp.guess

\* C2 witness: a guess one edit away from the 5-letter word was just scored
\* as a miss and play goes on
C2_Witness ==
    /\ lastOp.op = "guess"
    /\ gameProps.defined
    /\ 5 * EditsOf(lastOp.guess, gameProps.word)
          = MaxLenOf(lastOp.guess, gameProps.word)
    /\ currentScreen = "play"
    /\ Len(previousGuesses) = currentAttempt

\* C3: every non-blank guess raises attemptCount by exactly one, and
\* attemptCount never exceeds maxAttempts.
C3_AttemptCount ==
    [][ /\ lastOp'.op = "guess" => currentAttempt' = currentAttempt + 1
        /\ currentAttempt' <= MAX_ATTEMPTS
      ]_vars

\* C4: on the play screen attemptCount equals the length of guessHistory, and
\* no winning guess is ever in guessHistory.
C4_AttemptsMatchHistory ==
    /\ currentScreen = "play" => currentAttempt = Len(previousGuesses)
    /\ \A i \in 1..Len(previousGuesses) :
          ~RefWins(previousGuesses[i].predict, gameProps.word)

\* C5: when a start-round response succeeds the session enters play with
\* attemptCount 0, an empty guessHistory and the new Round stored, and when
\* startGame finishes a timer of exactly 20 seconds has been started.
C5_StartResets ==
    /\ lastOp.op = "gameOk"
          => /\ currentScreen = "play"
             /\ currentAttempt = 0
             /\ previousGuesses = <<>>
             /\ gameProps \in Rounds
    /\ (lastOp.op \in {"hintOk", "hintFail"} /\ lastOp.cont = "start")
          => /\ timerInterval \in DOMAIN timers
             /\ timers[timerInterval] = TIMER_DURATION - 1
             /\ timerDisplay = TIMER_DURATION

\* C6: when a non-matching guess brings attemptCount to maxAttempts the round
\* is lost and the timer is cancelled: no interval is live afterwards.
C6_LossCancelsTimer ==
    (lastOp.op = "guess" /\ currentAttempt >= MAX_ATTEMPTS /\ ShowsLoss)
        => (timerInterval = NULL /\ DOMAIN timers = {})

\* C7: every value written to the remaining-time display is in 0..20.
C7_DisplayNonNegative ==
    timerDisplay \in 0..TIMER_DURATION

\* C8: a timer runs its expiry at most once and is no longer live afterwards.
C8_ExpiryOnce ==
    [][ lastOp'.op = "expire"
          => /\ expired' # expired
             /\ (DOMAIN timers') \cap expired' = {}
      ]_vars

\* C9: at most one interval is live, and it is the one this.timerInterval names.
C9_OneLiveTimer ==
    /\ Cardinality(DOMAIN timers) <= 1
    /\ DOMAIN timers \subseteq {timerInterval}

\* C10: a timer expiry that finds the session on the play screen moves it to
\* the result screen with a loss, whatever attemptCount is.
C10_ExpiryInPlayIsLoss ==
    (lastOp.op = "expire" /\ lastOp.screen = "play") => ShowsLoss

\* C10 witness: the timer expired during play with one attempt left
C10_Witness ==
    /\ lastOp.op = "expire"
    /\ lastOp.screen = "play"
    /\ currentAttempt = MAX_ATTEMPTS - 1
    /\ ShowsLoss

\* C11: when the guess that uses up the last attempt has similarity above 0.8
\* the round ends as a win, not a loss, and the guess is not appended to
\* guessHistory.
C11_WinOnLastAttempt ==
    [][ ( /\ lastOp'.op = "guess"
          /\ gameProps.defined
          /\ currentAttempt' = MAX_ATTEMPTS
          /\ RefWins(lastOp'.guess, gameProps.word) )
        => /\ (ShowsWin)'
           /\ previousGuesses' = previousGuesses
      ]_vars

\* C11 witness: the fifth guess of a round, after four recorded misses, won
C11_Witness ==
    /\ lastOp.op = "guess"
    /\ gameProps.defined
    /\ RefWins(lastOp.guess, gameProps.word)
    /\ currentAttempt = MAX_ATTEMPTS
    /\ Len(previousGuesses) = MAX_ATTEMPTS - 1
    /\ ShowsWin

\* C12: a hint response that arrives after its round has ended (the session
\* is no longer on the play screen) is ignored: it does not change the
\* current hint.
C12_StaleHintIgnored ==
    [][ (lastOp'.op = "hintOk" /\ currentScreen # "play")
        => currentHint' = currentHint
      ]_vars

\* C13: at every moment at most one hint request is in flight.
C13_OneHintRequest ==
    hintReqs.start + hintReqs.guess <= 1

\* C14: at most one start-round request is in flight, and no startGame call
\* issues a request while another one's response is still outstanding.
C14_OneStartRequest ==
    /\ gameReqs <= 1
    /\ lastOp.op = "startGame" => gameReqs = 1

\* C15: the screen changes only setup -> play on a successful start-round
\* response, play -> result on a guess or a timer expiry, and result -> setup
\* on replay.
C15_ScreenTransitions ==
    [][ currentScreen' # currentScreen
        => \/ /\ currentScreen = "setup"
              /\ currentScreen' = "play"
              /\ lastOp'.op = "gameOk"
           \/ /\ currentScreen = "play"
              /\ currentScreen' = "result"
              /\ lastOp'.op \in {"guess", "expire"}
           \/ /\ currentScreen = "result"
              /\ currentScreen' = "setup"
              /\ lastOp'.op = "reset"
      ]_vars

\* C16: replay leaves the session on setup with attemptCount 0, an empty
\* guessHistory, no live timer and no Round stored.
C16_ReplayClears ==
    lastOp.op = "reset"
        => /\ currentScreen = "setup"
           /\ currentAttempt = 0
           /\ previousGuesses = <<>>
           /\ timerInterval = NULL
           /\ DOMAIN timers = {}
           /\ ~gameProps.defined

\* C17: after a failed hint request of a guess, the hint that was displayed
\* when the guess was submitted (recorded with the guess), if there was one,
\* is still the current hint.
C17_FailedHintKeepsPrevious ==
    ( /\ lastOp.op = "hintFail"
      /\ lastOp.cont = "guess"
      /\ previousGuesses # <<>>
      /\ previousGuesses[Len(previousGuesses)].sentence # "" )
    => currentHint = previousGuesses[Len(previousGuesses)].sentence

\* C18: a failed start-round response (non-success or thrown) leaves the
\* screen where it was, stores no Round, issues no hint request and starts no
\* timer.
C18_StartFailureCommitsNothing ==
    [][ lastOp'.op = "gameFail"
        => /\ currentScreen' = currentScreen
           /\ gameProps' = gameProps
           /\ hintReqs' = hintReqs
           /\ timers' = timers
           /\ timerInterval' = timerInterval
           /\ nextTimerId' = nextTimerId
      ]_vars

\* C18 witness: the only start-round request failed; the session is on setup
\* with no Round, no hint request and no timer
C18_Witness ==
    /\ lastOp.op = "gameFail"
    /\ lastOp.screen = "setup"
    /\ currentScreen = "setup"
    /\ ~gameProps.defined
    /\ hintReqs = NoHintReqs
    /\ timers = NoTimers

\* C19: startGame with difficulty unset, or with a topic that is empty or
\* blank, issues no request and changes no session state.
C19_InvalidStartRejected ==
    [][ \A d \in Difficulties, t \in Topics :
          (StartGame(d, t) /\ (d = "" \/ IsBlank(t)))
          => /\ gameReqs' = gameReqs
             /\ UNCHANGED <<currentScreen, currentAttempt, previousGuesses,
                            gameProps, timerInterval, timers, nextTimerId,
                            hintReqs>>
      ]_vars

\* C19 witness: a start was rejected on the setup screen after an earlier
\* start had been accepted and answered
C19_Witness ==
    /\ lastOp.op = "startGameRejected"
    /\ currentScreen = "setup"
    /\ nStarts = 1
    /\ gameReqs = 0

\* C20: a guess that is blank after trimming changes neither attemptCount,
\* guessHistory, the screen, the current hint nor the timer, and issues no
\* hint request.
C20_BlankGuessIgnored ==
    [][ (lastOp'.op \in {"guess", "guessBlank"} /\ IsBlank(lastOp'.guess))
        => UNCHANGED <<currentAttempt, previousGuesses, currentScreen,
                       currentHint, timerInterval, timers, timerDisplay,
                       hintReqs>>
      ]_vars

\* C20 witness: a blank guess was entered during play, after an earlier guess
\* and with the timer running
C20_Witness ==
    /\ lastOp.op = "guessBlank"
    /\ IsBlank(lastOp.guess)
    /\ currentScreen = "play"
    /\ currentAttempt > 0
    /\ timerInterval # NULL

\* C21: while the session stays on the play screen the stored Round (secret
\* word and banned list) does not change.
C21_RoundImmutable ==
    [][ (currentScreen = "play" /\ currentScreen' = "play")
        => gameProps' = gameProps
      ]_vars

\* C22: checkSimilarity returns 1 - d / max(len) with d the unit-cost edit
\* distance of the lowercased arguments: the matrix computation agrees with
\* the reference recursion on every pair; "dog" / "dob" is distance 1 over
\* length 3, a miss; similarity("", "cat") is 0.
C22_SimilarityIsEditDistance ==
    lastOp.op = "checkSimilarity"
        => /\ lastOp.result.edits
                 = RefEditDistance(toLowerCase(lastOp.str1), toLowerCase(lastOp.str2))
           /\ lastOp.result.maxLength = Max(Len(lastOp.str1), Len(lastOp.str2))
           /\ (lastOp.str1 = dog /\ lastOp.str2 = dob)
                 => /\ lastOp.result = [edits |-> 1, maxLength |-> 3]
                    /\ 5 * lastOp.result.edits >= lastOp.result.maxLength
           /\ (lastOp.str1 = <<>> /\ lastOp.str2 = cat)
                 => /\ lastOp.result.maxLength > 0
                    /\ lastOp.result.edits = lastOp.result.maxLength

\* C22 witness: checkSimilarity("dog", "dob") returned distance 1
C22_Witness ==
    /\ lastOp.op = "checkSimilarity"
    /\ lastOp.str1 = dog
    /\ lastOp.str2 = dob
    /\ lastOp.result.edits = 1

\* C23: with the word "elephant" the guess "elefant" is at distance 1 over
\* length 8 (similarity 0.875) and ends the round as a win.
C23_ElephantElefant ==
    (lastOp.op = "guess" /\ lastOp.guess = elefant /\ gameProps.word = elephant)
        => /\ checkSimilarity(lastOp.guess, gameProps.word)
                 = [edits |-> 1, maxLength |-> 8]
           /\ ShowsWin
           /\ previousGuesses = <<>>

\* C23 (amended): with the word "elephant" the guess "elefant" is at distance
\* 2 over length 8 (similarity 0.75, not above 0.8): it is recorded as a miss
\* and play goes on.
C23_ElephantElefantIsMiss ==
    (lastOp.op = "guess" /\ lastOp.guess = elefant /\ gameProps.word = elephant)
        => /\ checkSimilarity(lastOp.guess, gameProps.word)
                 = [edits |-> 2, maxLength |-> 8]
           /\ RefEditDistance(elefant, elephant) = 2
           /\ currentScreen = "play"
           /\ resultMessage = "none"
           /\ previousGuesses = <<[predict |-> elefant, sentence |-> ""]>>

\* C23 witness: "elefant" was guessed against "elephant" and recorded as the
\* first miss
C23_Witness ==
    /\ lastOp.op = "guess"
    /\ lastOp.guess = elefant
    /\ gameProps.word = elephant
    /\ currentAttempt = 1
    /\ Len(previousGuesses) = 1
    /\ currentScreen = "play"

\* C24: similarity(s, s) is 1 for every string s, the empty string included.
C24_SelfSimilarityIsOne ==
    (lastOp.op = "checkSimilarity" /\ lastOp.str1 = lastOp.str2)
        => /\ lastOp.result.maxLength > 0
           /\ lastOp.result.edits = 0

\* C25: similarity(a, b) equals similarity(b, a), and equals the value for
\* either argument with its letter case changed.
C25_SymmetricCaseBlind ==
    lastOp.op = "checkSimilarity"
        => /\ SameNumber(lastOp.result, checkSimilarity(lastOp.str2, lastOp.str1))
           /\ SameNumber(lastOp.result,
                         checkSimilarity(toLowerCase(lastOp.str1), lastOp.str2))
           /\ SameNumber(lastOp.result,
                         checkSimilarity(lastOp.str1, toLowerCase(lastOp.str2)))

\* C26: a timer emits the full duration immediately when it is started, and
\* every later tick of it emits exactly one less than its previous tick until
\* it expires or is cancelled; a cancelled timer never ticks again.
C26_TickSequence ==
    [][ /\ nextTimerId' # nextTimerId
           => /\ timerDisplay' = TIMER_DURATION
              /\ nextTimerId \in DOMAIN timers'
              /\ timers'[nextTimerId] = TIMER_DURATION - 1
        /\ \A id \in DOMAIN timers :
              Tick(id)
              => /\ timerDisplay' = timers[id]
                 /\ timers[id] >= 0
                      => /\ id \in DOMAIN timers'
                         /\ timers'[id] = timerDisplay' - 1
        /\ \A id \in 1..(nextTimerId - 1) :
              id \notin DOMAIN timers => id \notin DOMAIN timers'
      ]_vars

\* C26 witness: the current timer has ticked down to 0 and is about to expire
C26_Witness ==
    /\ lastOp.op = "tick"
    /\ timerDisplay = 0
    /\ timerInterval \in DOMAIN timers
    /\ timers[timerInterval] = -1

\* C27: clearTimer with no timer handle set (never started, already
\* cancelled or already expired) changes nothing: the live intervals stay as
\* they are and the handle stays empty.
C27_CancelIdempotent ==
    [][ ( /\ timerInterval = NULL
          /\ \/ lastOp'.op \in {"reset", "expire"}
             \/ (lastOp'.op = "guess" /\ (ShowsWin)') )
        => /\ timers' = timers
           /\ timerInterval' = NULL
      ]_vars

\* C27 witness: a guess won before any timer was started, so showResult(true)
\* called clearTimer on a handle that was never set
C27_Witness ==
    /\ lastOp.op = "guess"
    /\ ShowsWin
    /\ nextTimerId = 1
    /\ timerInterval = NULL

\* C28: a non-winning guess is appended to guessHistory as the guess text
\* with the hint displayed at that moment; every hint request carries the
\* whole guessHistory, which is empty on the first request of a round.
C28_HistoryAndRequestBody ==
    [][ /\ ( /\ lastOp'.op = "guess"
              /\ gameProps.defined
              /\ ~RefWins(lastOp'.guess, gameProps.word) )
           => previousGuesses' = Append(previousGuesses,
                  [predict |-> lastOp'.guess, sentence |-> currentHint])
        /\ lastOp'.body.sent
           => lastOp'.body.previous_guesses = previousGuesses'
        /\ lastOp'.op = "gameOk"
           => lastOp'.body.previous_guesses = <<>>
      ]_vars

\* C29: on the setup screen no timer handle is set and no interval is live.
C29_NoTimerOnSetup ==
    currentScreen = "setup" => (timerInterval = NULL /\ DOMAIN timers = {})

\* C30: a guess that ends the round issues no hint request, a hint response
\* (failed or not) issues none, and a request is issued only by a successful
\* start-round response (one) or by a recorded miss that leaves attemptCount
\* below 5 (one each, so at most 1 + 4 per round).
C30_HintRequestCount ==
    [][ /\ (lastOp'.op = "guess" /\ currentScreen' = "result")
           => hintReqs' = hintReqs
        /\ lastOp'.op \in {"hintOk", "hintFail"}
           => InFlight' = InFlight - 1
        /\ InFlight' > InFlight
           => /\ InFlight' = InFlight + 1
              /\ \/ lastOp'.op = "gameOk"
                 \/ /\ lastOp'.op = "guess"
                    /\ currentAttempt' \in 1..(MAX_ATTEMPTS - 1)
                    /\ Len(previousGuesses') = Len(previousGuesses) + 1
      ]_vars

\* C30 witness: the fifth miss ended the round and sent no hint request
C30_Witness ==
    /\ lastOp.op = "guess"
    /\ ShowsLoss
    /\ currentAttempt = MAX_ATTEMPTS
    /\ ~lastOp.body.sent
    /\ hintReqs = NoHintReqs

\* C31: the guess input is disabled exactly while a makeGuess call is being
\* processed (its hint request is in flight) and is enabled again once the
\* call has ended, whichever way it ended (win, loss, hint arrived, hint
\* failed, thrown error); with every hint request completing, a disabled
\* input is eventually enabled again.
C31_GuessInputReenabled ==
    /\ [](guessDisabled <=> hintReqs.guess > 0)
    /\ [][lastOp'.op = "guess" => guessDisabled' = (hintReqs'.guess > 0)]_vars
    /\ guessDisabled ~> ~guessDisabled

\* C31 witness: the hint request of a recorded miss failed, and the input the
\* miss had disabled is enabled again
C31_Witness ==
    /\ lastOp.op = "hintFail"
    /\ lastOp.cont = "guess"
    /\ currentAttempt >= 1
    /\ Len(previousGuesses) >= 1
    /\ hintReqs.guess = 0
    /\ ~guessDisabled

====
